---- MODULE Spec2Model ----
(***************************************************************************)
(* Model of script.py / settings.py: schema setup (init_db), the periodic  *)
(* ingestion task (fetch_weather), the operator command task               *)
(* (handle_user_input) and main_loop, which waits for the first of the two *)
(* tasks to complete.                                                      *)
(*                                                                         *)
(* Representation.  A Python value that may be None is a sequence of       *)
(* length 0 (None) or 1 (the value).  Wind directions are counted in half  *)
(* degrees so that 22.5 and 337.5 are integers; pressure results are in    *)
(* units of 1/100000 mmHg (hPa * 75006); coordinates are in microdegrees.  *)
(* Column labels and compass labels are written in ASCII.                  *)
(***************************************************************************)
EXTENDS Integers, Sequences, FiniteSets, TLC

\* ----------------------------------------------------------------- bounds
MaxRecords == 3      \* rows the weather table may hold
MaxTime == 2         \* observation times the API may report: 1..MaxTime
MaxRowNumber == 2    \* settings.ROW_NUMBER is drawn from 0..MaxRowNumber
MaxOutOfRange == 4   \* half degrees tried below 0 and above 360

\* --------------------------------------------------------------- settings
LATITUDE == 55698538
LONGITUDE == 37359576

\* ------------------------------------------------------------ Python None
None == <<>>
Some(v) == <<v>>

\* dict.get(key, None)
Get(d, key) == IF key \in DOMAIN d THEN Some(d[key]) ELSE None

VARIABLES
    ROW_NUMBER,       \* settings.ROW_NUMBER, fixed at start-up
    main_pc,          \* "init_db", "time_sleep", "main_loop", "wait", "done"
    init_result,      \* outcome of the latest create_all attempt
    table_exists,     \* the weather table is present in the database
    store,            \* rows of the weather table, in insertion order
    next_id,          \* the table's id sequence
    weather_task,     \* position of fetch_weather
    request,          \* query parameters of the latest GET (None before it)
    status,           \* HTTP status of the latest response (0 before it)
    weather_data,     \* what get_weather returned in the current cycle
    weather_error,    \* exception that ended fetch_weather
    user_input_task,  \* position of handle_user_input
    command,          \* the latest line read from the operator
    console,          \* the latest message printed by handle_user_input
    xlsx,             \* the file written by the command just handled
    user_error,       \* exception that ended handle_user_input
    degrees,          \* input of wind_direction_to_text (half degrees)
    direction         \* None before the conversion, then Some(result)

vars == <<ROW_NUMBER, main_pc, init_result, table_exists, store, next_id,
          weather_task, request, status, weather_data, weather_error,
          user_input_task, command, console, xlsx, user_error,
          degrees, direction>>

db_vars == <<table_exists, store, next_id>>
weather_vars == <<weather_task, request, status, weather_data, weather_error>>
user_vars == <<user_input_task, command, console, xlsx, user_error>>
wind_vars == <<degrees, direction>>

\* ------------------------------------------------------------ init_db
Outcomes == {"created", "OperationalError", "SQLAlchemyError"}

\* What the loop of init_db does after one attempt: "break" or "retry".
init_db_retries_all(outcome) ==
    IF outcome = "created" THEN "break" ELSE "retry"

init_db_handler(outcome) ==
    CASE outcome = "created" -> "break"
      [] outcome = "OperationalError" -> "retry"
      [] OTHER -> "break"

InitDbAttempt(outcome) ==
    /\ main_pc = "init_db"
    /\ init_result' = outcome
    /\ table_exists' = (table_exists \/ outcome = "created")
    /\ main_pc' = IF init_db_handler(outcome) = "retry"
                  THEN "time_sleep" ELSE "main_loop"
    /\ UNCHANGED <<ROW_NUMBER, store, next_id, weather_vars, user_vars,
                   wind_vars>>

\* time.sleep(5) ends and the loop tries again
InitDbSleep ==
    /\ main_pc = "time_sleep"
    /\ main_pc' = "init_db"
    /\ UNCHANGED <<ROW_NUMBER, init_result, db_vars, weather_vars, user_vars,
                   wind_vars>>

\* ------------------------------------------------------- wind direction
directions == <<"N", "NE", "E", "SE", "S", "SW", "W", "NW">>

\* directions[index] with Python's 0-based index; IndexError outside the list
ListItem(list, index) ==
    IF index + 1 \in DOMAIN list THEN list[index + 1] ELSE "IndexError"

wind_direction_no_north_branch(h) ==
    IF h < 0 \/ h > 720 THEN None
    ELSE Some(ListItem(directions, (h + 45) \div 90))

\* h is the direction in half degrees
wind_direction_to_text(h) ==
    IF h < 0 \/ h > 720 THEN None
    ELSE IF h >= 675 THEN Some("N")
    ELSE Some(ListItem(directions, (h + 45) \div 90))

\* ------------------------------------------------------------ the API
Times == 1 .. MaxTime

FullCurrent(t) ==
    [temperature_2m |-> 15, wind_speed_10m |-> 3, wind_direction_10m |-> 180,
     surface_pressure |-> 1000, precipitation |-> 2, rain |-> 1,
     showers |-> 1, snowfall |-> 4, time |-> t]

\* only a time and an out-of-range wind direction
SparseCurrent == [wind_direction_10m |-> 722, time |-> 1]

\* a current section without the observation time
UntimedCurrent == [temperature_2m |-> 15]

Payloads ==
    {[current |-> FullCurrent(t)] : t \in Times}
        \cup {[current |-> SparseCurrent], [current |-> UntimedCurrent]}
        \cup {[generationtime_ms |-> 1]}

ErrorJson == [error |-> TRUE]

Responses ==
    {[status |-> 200, json |-> p] : p \in Payloads}
        \cup {[status |-> 500, json |-> ErrorJson]}

get_weather(latitude, longitude, response) ==
    [params |-> [latitude |-> latitude, longitude |-> longitude],
     status |-> response.status,
     result |-> IF response.status = 200 THEN Some(response.json) ELSE None]

\* -------------------------------------------------------- normalisation
\* datetime.fromisoformat(s).replace(tzinfo=timezone.utc)
ToUtc(t) == [wall |-> t, tzinfo |-> Some("UTC")]

\* timestamp.replace(tzinfo=None)
StripTz(ts) == [wall |-> ts.wall, tzinfo |-> None]

ToMmHg(p) == p * 75006
ToMm(s) == s * 10

NewWeather(id, latitude, longitude, current) ==
    [id |-> id,
     timestamp |->
        IF Get(current, "time") = None THEN None
        ELSE Some(ToUtc(current["time"])),
     latitude |-> latitude,
     longitude |-> longitude,
     temperature |-> Get(current, "temperature_2m"),
     wind_speed |-> Get(current, "wind_speed_10m"),
     wind_direction |->
        IF Get(current, "wind_direction_10m") = None THEN None
        ELSE wind_direction_to_text(current["wind_direction_10m"]),
     pressure |->
        IF Get(current, "surface_pressure") = None THEN None
        ELSE Some(ToMmHg(current["surface_pressure"])),
     precipitation |-> Get(current, "precipitation"),
     rain |-> Get(current, "rain"),
     showers |-> Get(current, "showers"),
     snowfall |->
        IF Get(current, "snowfall") = None THEN None
        ELSE Some(ToMm(current["snowfall"]))]

SameButId(r, s) == [r EXCEPT !.id = 0] = [s EXCEPT !.id = 0]

\* session.add(row); session.commit(): the rows of the table afterwards
commit_dedup(rows, row) ==
    IF \E i \in DOMAIN rows : SameButId(rows[i], row) THEN rows
    ELSE Append(rows, row)

commit(rows, row) == Append(rows, row)

\* The outcome of one call: the exception raised ("none" if none) and the
\* rows of the table afterwards.
save_weather_to_db_subscript(latitude, longitude, data, table, rows, id) ==
    IF data = None THEN [raised |-> "TypeError", rows |-> rows]
    ELSE IF "current" \notin DOMAIN data[1]
    THEN [raised |-> "KeyError", rows |-> rows]
    ELSE LET row == NewWeather(id, latitude, longitude, data[1]["current"])
         IN  IF ~table THEN [raised |-> "ProgrammingError", rows |-> rows]
             ELSE IF row.timestamp = None
             THEN [raised |-> "IntegrityError", rows |-> rows]
             ELSE [raised |-> "none", rows |-> commit(rows, row)]

save_weather_to_db(latitude, longitude, data, table, rows, id) ==
    IF data = None
    THEN \* "current" in None
         [raised |-> "TypeError", rows |-> rows]
    ELSE IF "current" \notin DOMAIN data[1]
    THEN [raised |-> "none", rows |-> rows]
    ELSE LET row == NewWeather(id, latitude, longitude, data[1]["current"])
         IN  IF ~table
             THEN \* INSERT into a relation that does not exist
                  [raised |-> "ProgrammingError", rows |-> rows]
             ELSE IF row.timestamp = None
             THEN \* timestamp is nullable=False
                  [raised |-> "IntegrityError", rows |-> rows]
             ELSE [raised |-> "none", rows |-> commit(rows, row)]

\* ------------------------------------------------------- fetch_weather
GetWeather(response) ==
    /\ main_pc = "wait"
    /\ weather_task = "get_weather"
    /\ Len(store) < MaxRecords
    /\ LET got == get_weather(LATITUDE, LATITUDE, response)
       IN  /\ request' = Some(got.params)
           /\ status' = got.status
           /\ weather_data' = got.result
    /\ weather_task' = "save_weather_to_db"
    /\ UNCHANGED <<ROW_NUMBER, main_pc, init_result, db_vars, weather_error,
                   user_vars, wind_vars>>

SaveWeatherToDb ==
    /\ main_pc = "wait"
    /\ weather_task = "save_weather_to_db"
    /\ LET out == save_weather_to_db(LATITUDE, LATITUDE, weather_data,
                                     table_exists, store, next_id)
       IN  /\ store' = out.rows
           /\ next_id' = IF out.rows = store THEN next_id ELSE next_id + 1
           /\ weather_error' = out.raised
           /\ weather_task' = IF out.raised = "none" THEN "sleep" ELSE "failed"
    /\ UNCHANGED <<ROW_NUMBER, main_pc, init_result, table_exists, request,
                   status, weather_data, user_vars, wind_vars>>

\* asyncio.sleep(settings.PERIOD) ends
Sleep ==
    /\ main_pc = "wait"
    /\ weather_task = "sleep"
    /\ weather_task' = "get_weather"
    /\ UNCHANGED <<ROW_NUMBER, main_pc, init_result, db_vars, request, status,
                   weather_data, weather_error, user_vars, wind_vars>>

\* ------------------------------------------------------------- export
Min(a, b) == IF a <= b THEN a ELSE b

Wall(row) == row.timestamp[1].wall

\* the orders in which ORDER BY timestamp DESC may return the rows
DescOrders(rows) ==
    {p \in [DOMAIN rows -> DOMAIN rows] :
        /\ \A i, j \in DOMAIN rows : i # j => p[i] # p[j]
        /\ \A i, j \in DOMAIN rows :
              i < j => Wall(rows[p[i]]) >= Wall(rows[p[j]])}

AscOrders(rows) ==
    {p \in [DOMAIN rows -> DOMAIN rows] :
        /\ \A i, j \in DOMAIN rows : i # j => p[i] # p[j]
        /\ \A i, j \in DOMAIN rows :
              i < j => Wall(rows[p[i]]) <= Wall(rows[p[j]])}

get_last_weather_ascending(rows, limit) ==
    {[i \in 1 .. Min(limit, Len(rows)) |-> rows[p[i]]] : p \in AscOrders(rows)}

\* the results select(...).order_by(timestamp.desc()).limit(limit) may give
get_last_weather(rows, limit) ==
    {[i \in 1 .. Min(limit, Len(rows)) |-> rows[p[i]]] : p \in DescOrders(rows)}

Columns ==
    <<"Date and time", "Latitude", "Longitude", "Temperature, deg.",
      "Wind speed, m/s", "Wind direction", "Pressure, mmHg",
      "Precipitation, mm", "Rain, mm", "Showers, mm", "Snow, mm">>

SheetRow(row) ==
    <<StripTz(row.timestamp[1]), row.latitude, row.longitude, row.temperature,
      row.wind_speed, row.wind_direction, row.pressure, row.precipitation,
      row.rain, row.showers, row.snowfall>>

\* pd.DataFrame(list of dicts).to_excel(...): the columns are the keys of the
\* dicts, so a frame built from an empty list has no columns at all
export_to_excel(data) ==
    [header |-> IF data = <<>> THEN <<>> ELSE Columns,
     rows |-> [i \in DOMAIN data |-> SheetRow(data[i])]]

\* -------------------------------------------------- handle_user_input
Lines == {"export", "exit", "help"}

dispatch_exit_on_unknown(line) ==
    IF line = "export" THEN "export" ELSE "exit"

\* the branch of the if / elif / else that a line takes
dispatch(line) ==
    IF line = "export" THEN "export"
    ELSE IF line = "exit" THEN "exit"
    ELSE "unknown"

HandleUserInput(line) ==
    /\ main_pc = "wait"
    /\ user_input_task = "input"
    /\ command' = line
    /\ CASE dispatch(line) = "export" ->
              IF table_exists
              THEN \E data \in get_last_weather(store, ROW_NUMBER) :
                      /\ xlsx' = Some(export_to_excel(data))
                      /\ console' = "exported"
                      /\ user_input_task' = "input"
                      /\ user_error' = "none"
              ELSE \* SELECT from a relation that does not exist
                   /\ xlsx' = None
                   /\ console' = "exporting"
                   /\ user_input_task' = "failed"
                   /\ user_error' = "ProgrammingError"
         [] dispatch(line) = "exit" ->
              /\ xlsx' = None
              /\ console' = "terminating"
              /\ user_input_task' = "finished"
              /\ user_error' = "none"
         [] OTHER ->
              /\ xlsx' = None
              /\ console' = "unknown command"
              /\ user_input_task' = "input"
              /\ user_error' = "none"
    /\ UNCHANGED <<ROW_NUMBER, main_pc, init_result, db_vars, weather_vars,
                   wind_vars>>

\* ------------------------------------------------------------ main_loop
Completed == {"finished", "failed"}

\* create_task(fetch_weather()), create_task(handle_user_input()), then wait
MainLoopStart ==
    /\ main_pc = "main_loop"
    /\ main_pc' = "wait"
    /\ weather_task' = "get_weather"
    /\ user_input_task' = "input"
    /\ UNCHANGED <<ROW_NUMBER, init_result, db_vars, request, status,
                   weather_data, weather_error, command, console, xlsx,
                   user_error, wind_vars>>

\* asyncio.wait(FIRST_COMPLETED) returns, main_loop returns, and asyncio.run
\* cancels the task that is still pending
MainLoopReturn ==
    /\ main_pc = "wait"
    /\ weather_task \in Completed \/ user_input_task \in Completed
    /\ main_pc' = "done"
    /\ weather_task' =
          IF weather_task \in Completed THEN weather_task ELSE "cancelled"
    /\ user_input_task' =
          IF user_input_task \in Completed THEN user_input_task
          ELSE "cancelled"
    /\ UNCHANGED <<ROW_NUMBER, init_result, db_vars, request, status,
                   weather_data, weather_error, command, console, xlsx,
                   user_error, wind_vars>>

\* ---------------------------------------------------------------- Spec
Init ==
    /\ ROW_NUMBER \in 0 .. MaxRowNumber
    /\ main_pc = "init_db"
    /\ init_result = "none"
    /\ table_exists \in BOOLEAN
    /\ store = <<>>
    /\ next_id = 1
    /\ weather_task = "not_started"
    /\ request = None
    /\ status = 0
    /\ weather_data = None
    /\ weather_error = "none"
    /\ user_input_task = "not_started"
    /\ command = "none"
    /\ console = "none"
    /\ xlsx = None
    /\ user_error = "none"
    /\ degrees = 0
    /\ direction = None

Next ==
    \/ \E outcome \in Outcomes : InitDbAttempt(outcome)
    \/ InitDbSleep
    \/ MainLoopStart
    \/ \E response \in Responses : GetWeather(response)
    \/ SaveWeatherToDb
    \/ Sleep
    \/ \E line \in Lines : HandleUserInput(line)
    \/ MainLoopReturn

Spec == Init /\ [][Next]_vars

\* The main thread and the event loop keep running: every attempt of init_db
\* and its sleep end, main_loop starts its tasks and returns once the wait is
\* over.
LiveSpec ==
    /\ Init
    /\ [][Next]_vars
    /\ WF_vars(\E outcome \in Outcomes : InitDbAttempt(outcome))
    /\ WF_vars(InitDbSleep)
    /\ WF_vars(MainLoopStart)
    /\ WF_vars(MainLoopReturn)

\* --------------------------------------- wind_direction_to_text alone
WindInputs == (0 - MaxOutOfRange) .. (720 + MaxOutOfRange)

InitWind ==
    /\ ROW_NUMBER = 0
    /\ main_pc = "init_db"
    /\ init_result = "none"
    /\ table_exists = FALSE
    /\ store = <<>>
    /\ next_id = 1
    /\ weather_task = "not_started"
    /\ request = None
    /\ status = 0
    /\ weather_data = None
    /\ weather_error = "none"
    /\ user_input_task = "not_started"
    /\ command = "none"
    /\ console = "none"
    /\ xlsx = None
    /\ user_error = "none"
    /\ degrees \in WindInputs
    /\ direction = None

WindConvert ==
    /\ direction = None
    /\ direction' = Some(wind_direction_to_text(degrees))
    /\ UNCHANGED <<ROW_NUMBER, main_pc, init_result, db_vars, weather_vars,
                   user_vars, degrees>>

NextWind == WindConvert

SpecWind == InitWind /\ [][NextWind]_vars

\* ================================================================ claims

\* C1: a cycle whose fetch returned a non-200 status raises no error: the
\* ingestion task goes on to its sleep and to the next fetch, and the store
\* is left as it was.
C1_NonOkCycleKeepsRunning ==
    (status # 0 /\ status # 200
        /\ weather_task \notin {"save_weather_to_db", "cancelled"})
    => (weather_task \in {"sleep", "get_weather"} /\ weather_error = "none")

\* C2: an ingestion failure never disables the command loop: while the
\* operator has not entered exit (and the command loop has not itself raised)
\* the command loop is still reading lines after the ingestion task failed.
C2_CommandLoopSurvivesIngestionFailure ==
    (weather_task = "failed" /\ command # "exit" /\ user_error = "none")
    => user_input_task = "input"

NoCurrent ==
    /\ status = 200
    /\ weather_data # None
    /\ "current" \notin DOMAIN weather_data[1]

\* C3: when a 200 response carries no current key, save_weather_to_db adds
\* nothing to the store and raises nothing, the task moves on to its sleep,
\* and from the sleep the next cycle can and does start.
C3_MissingCurrentIsSkipped ==
    /\ [][(SaveWeatherToDb /\ NoCurrent)
            => /\ store' = store
               /\ next_id' = next_id
               /\ weather_error' = "none"
               /\ weather_task' = "sleep"]_vars
    /\ [][(weather_task = "sleep" /\ NoCurrent)
            => weather_task' \in {"sleep", "get_weather", "cancelled"}]_vars
    /\ []((weather_task = "sleep" /\ NoCurrent /\ main_pc = "wait")
            => ENABLED Sleep)

C3_Witness ==
    /\ NoCurrent
    /\ weather_task = "get_weather"
    /\ weather_error = "none"
    /\ store # <<>>

Injections(n, S) ==
    {f \in [1 .. n -> S] : \A i, j \in 1 .. n : i # j => f[i] # f[j]}

\* out holds the sheet rows of the Min(n, k) latest of the k rows, latest first
IsLatest(out, rows, n) ==
    /\ Len(out) = Min(n, Len(rows))
    /\ \A i, j \in DOMAIN out : i < j => out[i][1].wall >= out[j][1].wall
    /\ \E f \in Injections(Len(out), DOMAIN rows) :
          /\ \A i \in DOMAIN out : out[i] = SheetRow(rows[f[i]])
          /\ \A k \in DOMAIN rows :
                (\A i \in DOMAIN out : f[i] # k)
                => \A i \in DOMAIN out : Wall(rows[k]) <= Wall(rows[f[i]])

\* C4: export over a table of k rows with ROW_NUMBER = N writes exactly
\* min(N, k) rows, the rows with the greatest timestamps, in descending order
\* of timestamp, and leaves the store unchanged.
C4_ExportLatestRows ==
    [][HandleUserInput("export")
        => /\ store' = store
           /\ next_id' = next_id
           /\ table_exists
                => /\ xlsx' # None
                   /\ IsLatest(xlsx'[1].rows, store, ROW_NUMBER)]_vars

C4_Witness ==
    /\ xlsx # None
    /\ ROW_NUMBER = 2
    /\ Len(store) = 3
    /\ Wall(store[1]) < Wall(store[3])
    /\ Len(xlsx[1].rows) = 2
    /\ xlsx[1].rows[1] = SheetRow(store[3])
    /\ xlsx[1].rows[1][1].wall > xlsx[1].rows[2][1].wall

\* C5: exporting while the store holds no record writes a sheet with the
\* header row of all eleven column labels and no data row.
C5_EmptyExportHasHeader ==
    (xlsx # None /\ store = <<>>)
    => (xlsx[1].header = Columns /\ Len(xlsx[1].header) = 11
        /\ xlsx[1].rows = <<>>)

C7_WindDirectionSectors ==
    direction # None
    => LET h == degrees
           label == direction[1]
       IN  /\ (h < 0 \/ h > 720) => label = None
           /\ (675 <= h /\ h <= 720) => label = Some(directions[1])
           /\ (0 <= h /\ h < 675)
                => \E k \in 0 .. 7 :
                      /\ 90 * k <= h + 45
                      /\ h + 45 < 90 * (k + 1)
                      /\ label = Some(directions[k + 1])
           /\ h = 0 => label = Some("N")

C7_Witness ==
    /\ direction = Some(Some("NW"))
    /\ degrees = 674

\* C8: every fetch queries (LATITUDE, LONGITUDE) and every stored record
\* carries latitude = LATITUDE and longitude = LONGITUDE.
C8_ConfiguredCoordinates ==
    /\ request # None
         => request[1] = [latitude |-> LATITUDE, longitude |-> LONGITUDE]
    /\ \A i \in DOMAIN store :
          /\ store[i].latitude = LATITUDE
          /\ store[i].longitude = LONGITUDE

InInitDb == main_pc \in {"init_db", "time_sleep"}

\* C9: init_db tries again after every OperationalError, however many there
\* were; it returns exactly when an attempt succeeds or fails with another
\* store error, in the latter case without having created the table, and the
\* process then starts both loops all the same. Once OperationalErrors stop,
\* init_db returns.
C9_InitDbRetriesUntilOtherOutcome ==
    /\ [][(\E o \in Outcomes : InitDbAttempt(o))
            => /\ init_result' = "OperationalError"
                    => (main_pc' = "time_sleep"
                        /\ table_exists' = table_exists)
               /\ init_result' = "created"
                    => (main_pc' = "main_loop" /\ table_exists')
               /\ init_result' = "SQLAlchemyError"
                    => (main_pc' = "main_loop"
                        /\ table_exists' = table_exists)]_vars
    /\ [][main_pc = "time_sleep"
            => main_pc' \in {"time_sleep", "init_db"}]_vars
    /\ [](main_pc = "init_db" => ENABLED InitDbAttempt("OperationalError"))
    /\ (main_pc = "main_loop")
         ~> (weather_task # "not_started" /\ user_input_task # "not_started")
    /\ <>[](init_result # "OperationalError") => <>(~InInitDb)

C9_Witness ==
    /\ init_result = "SQLAlchemyError"
    /\ ~table_exists
    /\ weather_task = "get_weather"
    /\ user_input_task = "input"

HasTimedCurrent ==
    /\ weather_data # None
    /\ "current" \in DOMAIN weather_data[1]
    /\ "time" \in DOMAIN weather_data[1]["current"]

\* one row was added at the end, with an id no earlier row has
Appended ==
    /\ Len(store') = Len(store) + 1
    /\ SubSeq(store', 1, Len(store)) = store
    /\ \A i \in DOMAIN store : store[i].id # store'[Len(store')].id

\* C10 as stated: every cycle whose payload has a current section with its
\* observation time appends exactly one record with a fresh id and leaves the
\* earlier records unchanged.
C10_EveryTimedCycleAppends ==
    [][(SaveWeatherToDb /\ HasTimedCurrent) => Appended]_vars

\* C10 amended: such a cycle appends exactly one record with a fresh id and
\* leaves the earlier records unchanged when the weather table exists, also
\* when an equal record is already stored (no deduplication); when the table
\* is absent the commit raises, nothing is stored and the task ends.
C10_TimedCycleAppendsWhenTableExists ==
    /\ [][(SaveWeatherToDb /\ HasTimedCurrent)
            => IF table_exists
               THEN /\ Appended
                    /\ weather_task' = "sleep"
                    /\ store'[Len(store')] =
                          NewWeather(store'[Len(store')].id, LATITUDE,
                                     request[1].longitude,
                                     weather_data[1]["current"])
               ELSE /\ store' = store
                    /\ weather_task' = "failed"]_vars
    /\ [](\A i, j \in DOMAIN store : i # j => store[i].id # store[j].id)

C10_Witness ==
    /\ Len(store) >= 2
    /\ SameButId(store[1], store[2])
    /\ store[1].id # store[2].id
    /\ store[1].wind_direction = Some("E")
    /\ weather_task = "sleep"

====
